---- MODULE Spec2Model ----
(***************************************************************************)
(* LEX_TRI: the hive coordinator of src/agi_hive_system.py (task queue,    *)
(* dispatch, execution, consensus) and the tri-temporal anomaly detector   *)
(* of src/temporal_viz.py.                                                 *)
(*                                                                         *)
(* The coordinator runs on one asyncio event loop: code between two awaits *)
(* that really suspend is one atomic action.  _process_task_queue has no   *)
(* await in its body, so a dispatch cycle is one action.  _execute_task    *)
(* awaits the agent's analysis and, when a consensus is built, the         *)
(* database, so it is three actions.                                       *)
(***************************************************************************)
EXTENDS Integers, Sequences, FiniteSets, TLC

VARIABLES
    agentStatus,        \* self.agents: agent id (1..n, registration order) -> AGIAgent.status
    tasks,              \* every HiveTask object created by submit, indexed by task_id
    task_queue,         \* self.task_queue: list of task ids
    active_tasks,       \* self.active_tasks: the keys of the dict
    completed_tasks,    \* self.completed_tasks: list of task ids
    running,            \* self.running
    dispatchScheduled,  \* _process_task_queue coroutines created by submit, not yet run
    execPc,             \* position of the _execute_task coroutine of each task
    consensus,          \* the consensus records built by _build_consensus, in order
    lastCheck,          \* what the latest _check_consensus_completion computed
    lastSubmit,         \* outcome of the latest submit call
    points,             \* TemporalTimeline.points
    anomalies,          \* the list analyze_anomalies returned
    analyzed,           \* analyze_anomalies has been called on points
    name,               \* TemporalTimeline.name
    exchange,           \* the JSON document save_to_json wrote
    loaded              \* the timeline load_from_json built from the document

vars == <<agentStatus, tasks, task_queue, active_tasks, completed_tasks, running,
          dispatchScheduled, execPc, consensus, lastCheck, lastSubmit,
          points, anomalies, analyzed, name, exchange, loaded>>

hiveVars == <<agentStatus, tasks, task_queue, active_tasks, completed_tasks, running,
              dispatchScheduled, execPc, consensus, lastCheck, lastSubmit>>

timelineVars == <<points, anomalies, analyzed, name, exchange, loaded>>

----------------------------------------------------------------------------
(* Bounds of the model *)

MaxSwarmSize == 4
MaxSwarmSizeEnv == 2
MaxTasks == 2
MaxPriority == 2
MaxTimelines == 2
MaxWorkerCount == 10
MaxTieAgents == 2

(* Program constants *)

AgentConfigCount == 3
ConsensusThresholdPct == 70
ReportedConfidencePct == 85
DefaultConfidencePct == 50
MinQuorum == 2
DefaultPriority == 5

Priorities == 1..MaxPriority
TimelineIds == 1..MaxTimelines
NodeStatuses == {"active", "offline"}
NoAgent == 0

Min(a, b) == IF a < b THEN a ELSE b
Max(a, b) == IF a > b THEN a ELSE b

AgentIds == DOMAIN agentStatus
TaskIds == DOMAIN tasks

Range(s) == {s[i] : i \in DOMAIN s}

----------------------------------------------------------------------------
(* HiveTask and the dictionaries an agent returns *)

NoData == [kind |-> "none", agent_id |-> NoAgent, confidence |-> 0]

AnalysisResult(a) ==
    [kind |-> "analysis", agent_id |-> a, confidence |-> ReportedConfidencePct]

ErrorResult(a) ==
    [kind |-> "error", agent_id |-> a, confidence |-> 0]

HiveTask(p, tl) ==
    [priority |-> p,
     timeline_id |-> tl,
     status |-> "pending",
     assigned_node_id |-> NoAgent,
     output_data |-> NoData,
     error_data |-> NoData,
     completed_at |-> "None",
     progress_percentage |-> 0]

(* AGIAgent.process_temporal_analysis: an exception of the AI client is    *)
(* caught inside the agent and returned as a dictionary with an 'error'    *)
(* key; the method itself never raises.                                    *)
AnalysisOutcomes == {"ok", "raises"}

process_temporal_analysis(a, outcome) ==
    IF outcome = "ok" THEN AnalysisResult(a) ELSE ErrorResult(a)

----------------------------------------------------------------------------
(* _process_task_queue *)

(* an insertion that puts a task before the tasks of equal priority: the  *)
(* order sort() followed by reverse() would give                          *)
RECURSIVE InsertBeforeEqual(_, _, _)
InsertBeforeEqual(sorted, t, ts) ==
    IF sorted = <<>> THEN <<t>>
    ELSE IF ts[Head(sorted)].priority > ts[t].priority
         THEN <<Head(sorted)>> \o InsertBeforeEqual(Tail(sorted), t, ts)
         ELSE <<t>> \o sorted

RECURSIVE InsertByPriority(_, _, _)
InsertByPriority(sorted, t, ts) ==
    IF sorted = <<>> THEN <<t>>
    ELSE IF ts[Head(sorted)].priority >= ts[t].priority
         THEN <<Head(sorted)>> \o InsertByPriority(Tail(sorted), t, ts)
         ELSE <<t>> \o sorted

(* the sort without reverse=True *)
RECURSIVE InsertAscending(_, _, _)
InsertAscending(sorted, t, ts) ==
    IF sorted = <<>> THEN <<t>>
    ELSE IF ts[Head(sorted)].priority <= ts[t].priority
         THEN <<Head(sorted)>> \o InsertAscending(Tail(sorted), t, ts)
         ELSE <<t>> \o sorted

RECURSIVE SortByPriorityAscending(_, _)
SortByPriorityAscending(q, ts) ==
    IF q = <<>> THEN <<>>
    ELSE InsertAscending(SortByPriorityAscending(SubSeq(q, 1, Len(q) - 1), ts), q[Len(q)], ts)

(* first come, first served: the pending collection is not sorted *)
SortKeepsSubmissionOrder(q, ts) == q

RECURSIVE SortByPriority(_, _)
SortByPriority(q, ts) ==
    IF q = <<>> THEN <<>>
    ELSE InsertByPriority(SortByPriority(SubSeq(q, 1, Len(q) - 1), ts), q[Len(q)], ts)

(* lines 393-394 *)
AssignTaskKeepsPending(ts, t, a) ==
    [ts EXCEPT ![t].assigned_node_id = a]

AssignTask(ts, t, a) ==
    [ts EXCEPT ![t].assigned_node_id = a, ![t].status = "assigned"]

AgentHoldsActive(a, active, ts) ==
    \E t \in active : ts[t].assigned_node_id = a

available_agents_AnyStatus(active, ts) ==
    {a \in AgentIds : ~AgentHoldsActive(a, active, ts)}

available_agents(active, ts) ==
    {a \in AgentIds : agentStatus[a] = "active" /\ ~AgentHoldsActive(a, active, ts)}

FirstAgent(S) == CHOOSE a \in S : \A b \in S : a <= b

DispatchState(q, active, ts, pcs, order) ==
    [queue |-> q, active |-> active, tasks |-> ts, pc |-> pcs, launched |-> order]

(* a dispatcher without admission control: every pending task goes to the *)
(* first agent whose status is "active"                                   *)
RECURSIVE DispatchLoopNoAdmission(_)
DispatchLoopNoAdmission(d) ==
    LET up == {a \in AgentIds : agentStatus[a] = "active"}
    IN  IF d.queue /= <<>> /\ up /= {}
        THEN LET t == Head(d.queue)
             IN  DispatchLoopNoAdmission(DispatchState(
                     Tail(d.queue),
                     d.active \cup {t},
                     AssignTask(d.tasks, t, FirstAgent(up)),
                     [d.pc EXCEPT ![t] = "scheduled"],
                     Append(d.launched, t)))
        ELSE d

RECURSIVE DispatchLoop(_)
DispatchLoop(d) ==
    IF d.queue /= <<>> /\ Cardinality(d.active) < Cardinality(AgentIds)
    THEN LET t == Head(d.queue)
             rest == Tail(d.queue)
             avail == available_agents(d.active, d.tasks)
         IN  IF avail /= {}
             THEN LET a == FirstAgent(avail)
                  IN  DispatchLoop(DispatchState(
                          rest,
                          d.active \cup {t},
                          AssignTask(d.tasks, t, a),
                          [d.pc EXCEPT ![t] = "scheduled"],
                          Append(d.launched, t)))
             ELSE DispatchLoop(DispatchState(rest, d.active, d.tasks, d.pc, d.launched))
    ELSE d

(* a preemptive scheduler: before dispatching, the cycle takes back an    *)
(* assigned task that has not started and queues it again                 *)
ProcessTaskQueuePreempting(q, active, ts, pcs) ==
    LET waiting == {t \in active : pcs[t] = "scheduled"}
    IN  IF q = <<>> \/ waiting = {}
        THEN IF q = <<>>
             THEN DispatchState(q, active, ts, pcs, <<>>)
             ELSE DispatchLoop(DispatchState(SortByPriority(q, ts), active, ts, pcs, <<>>))
        ELSE LET v == CHOOSE t \in waiting : \A u \in waiting : t <= u
                 ts1 == [ts EXCEPT ![v].status = "pending", ![v].assigned_node_id = NoAgent]
             IN  DispatchLoop(DispatchState(SortByPriority(Append(q, v), ts1), active \ {v},
                                            ts1, [pcs EXCEPT ![v] = "none"], <<>>))

ProcessTaskQueue(q, active, ts, pcs) ==
    IF q = <<>>
    THEN DispatchState(q, active, ts, pcs, <<>>)
    ELSE DispatchLoop(DispatchState(SortByPriority(q, ts), active, ts, pcs, <<>>))

(* a cycle that acts on a stale pending collection: what it popped is     *)
(* still listed afterwards                                                *)
ApplyDispatchStaleQueue ==
    LET d == ProcessTaskQueue(task_queue, active_tasks, tasks, execPc)
    IN  /\ task_queue' = task_queue
        /\ active_tasks' = d.active
        /\ tasks' = d.tasks
        /\ execPc' = d.pc

ApplyDispatch ==
    LET d == ProcessTaskQueue(task_queue, active_tasks, tasks, execPc)
    IN  /\ task_queue' = d.queue
        /\ active_tasks' = d.active
        /\ tasks' = d.tasks
        /\ execPc' = d.pc

(* the dispatch cycle scheduled by submit (asyncio.create_task) *)
RunScheduledDispatch ==
    /\ dispatchScheduled > 0
    /\ dispatchScheduled' = dispatchScheduled - 1
    /\ ApplyDispatch
    /\ UNCHANGED timelineVars
    /\ UNCHANGED <<agentStatus, completed_tasks, running, consensus, lastCheck, lastSubmit>>

(* one round of _task_processor *)
PeriodicDispatch ==
    /\ running
    /\ task_queue /= <<>>
    /\ ApplyDispatch
    /\ UNCHANGED timelineVars
    /\ UNCHANGED <<agentStatus, completed_tasks, running, dispatchScheduled,
                   consensus, lastCheck, lastSubmit>>

----------------------------------------------------------------------------
(* submit_temporal_analysis_task.  The payload timeline.to_dict() builds   *)
(* (lines 342, 355) is opaque to the coordinator and is not kept; the call *)
(* is taken to return, although temporal_viz.TemporalTimeline defines no   *)
(* to_dict.                                                                *)

Submit(tl, p) ==
    /\ Len(tasks) < MaxTasks
    /\ tasks' = Append(tasks, HiveTask(p, tl))
    /\ execPc' = Append(execPc, "none")
    /\ task_queue' = Append(task_queue, Len(tasks) + 1)
    /\ dispatchScheduled' = dispatchScheduled + 1
    /\ lastSubmit' = "returned"
    /\ UNCHANGED timelineVars
    /\ UNCHANGED <<agentStatus, active_tasks, completed_tasks, running, consensus, lastCheck>>

(* db.store_timeline or db.create_hive_task raises: logged and re-raised *)
SubmitRaises ==
    /\ Len(tasks) < MaxTasks
    /\ lastSubmit' = "raised"
    /\ UNCHANGED timelineVars
    /\ UNCHANGED <<agentStatus, tasks, task_queue, active_tasks, completed_tasks, running,
                   dispatchScheduled, execPc, consensus, lastCheck>>

(* a storage layer that hands out the first timeline id again *)
FreshTimelineId_Reused == IF tasks = <<>> THEN 1 ELSE tasks[1].timeline_id

(* the timeline id is the uuid4 of db.store_timeline: a fresh value *)
FreshTimelineId == Len(tasks) + 1

SubmitTask == \E p \in Priorities : Submit(FreshTimelineId, p)

----------------------------------------------------------------------------
(* _execute_task.  Its except branch (lines 424-430, status failed) is     *)
(* entered by no exception of the code it calls: the agent catches every   *)
(* Exception of the analysis, _build_consensus and _store_consensus_result *)
(* catch their own.  The branch is therefore no action of the model.       *)

(* lines 403-408: the coroutine starts and awaits the agent *)
ExecStart(t) ==
    /\ execPc[t] = "scheduled"
    /\ tasks' = [tasks EXCEPT ![t].status = "running"]
    /\ execPc' = [execPc EXCEPT ![t] = "awaiting"]
    /\ UNCHANGED timelineVars
    /\ UNCHANGED <<agentStatus, task_queue, active_tasks, completed_tasks, running,
                   dispatchScheduled, consensus, lastCheck, lastSubmit>>

(* lines 409-412 *)
CompleteTask(ts, t, result) ==
    [ts EXCEPT ![t].output_data = result,
               ![t].status = "completed",
               ![t].completed_at = "now",
               ![t].progress_percentage = 100]

related_tasks_AnyTimeline(completed, ts, tl) ==
    SelectSeq(completed, LAMBDA u : ts[u].status = "completed")

(* the filter applied to every task of the timeline, in the history or not *)
related_tasks_AllTasks(completed, ts, tl) ==
    SelectSeq([i \in 1..Len(ts) |-> i], LAMBDA u : ts[u].timeline_id = tl)

(* lines 439-444 *)
related_tasks(completed, ts, tl) ==
    SelectSeq(completed,
              LAMBDA u : ts[u].timeline_id = tl /\ ts[u].status = "completed")

(* int(x) of a non-negative quotient num/den *)
IntTrunc(num, den) == num \div den

QuorumNoMinimum(n) == IntTrunc(n * ConsensusThresholdPct, 100)

(* line 447: max(2, int(len(self.agents) * self.consensus_threshold)) *)
Quorum(n) == Max(MinQuorum, IntTrunc(n * ConsensusThresholdPct, 100))

(* output_data.get('analysis', ''): the text names the agent, '' is 0 *)
AnalysisText(out) == IF out.kind = "analysis" THEN out.agent_id ELSE NoAgent

(* output_data.get('confidence', 0) *)
ConfidenceOfZeroDefault(out) == IF out.kind = "analysis" THEN out.confidence ELSE 0

(* output_data.get('confidence', 0.5) *)
ConfidenceOf(out) == IF out.kind = "analysis" THEN out.confidence ELSE DefaultConfidencePct

RECURSIVE SumSeq(_)
SumSeq(s) == IF s = <<>> THEN 0 ELSE Head(s) + SumSeq(Tail(s))

(* _build_consensus; the average is kept as the pair sum, count *)
build_consensus(rel, ts, tl, by) ==
    LET withOutput == SelectSeq(rel, LAMBDA u : ts[u].output_data.kind /= "none")
        analyses == [i \in 1..Len(withOutput) |-> AnalysisText(ts[withOutput[i]].output_data)]
        confidences == [i \in 1..Len(withOutput) |-> ConfidenceOf(ts[withOutput[i]].output_data)]
    IN  [timeline_id |-> tl,
         by |-> by,
         tasks |-> rel,
         consensus_analysis |-> [i \in 1..Len(analyses) |-> <<"Agent Analysis", i, analyses[i]>>],
         individual_analyses |-> analyses,
         confidence_sum |-> IF confidences = <<>> THEN DefaultConfidencePct
                            ELSE SumSeq(confidences),
         confidence_count |-> IF confidences = <<>> THEN 1 ELSE Len(confidences),
         participating_agents |-> Len(rel)]

(* a check guarded against a second emission: it fires only at the quorum *)
CheckConsensusOnce(completed, ts, t) ==
    LET tl == ts[t].timeline_id
        rel == related_tasks(completed, ts, tl)
        q == Quorum(Cardinality(AgentIds))
    IN  [check |-> [task |-> t, related |-> rel, threshold |-> q],
         reached |-> Len(rel) = q,
         record |-> build_consensus(rel, ts, tl, t)]

(* _check_consensus_completion up to its first await of the database *)
CheckConsensus(completed, ts, t) ==
    LET tl == ts[t].timeline_id
        rel == related_tasks(completed, ts, tl)
        q == Quorum(Cardinality(AgentIds))
    IN  [check |-> [task |-> t, related |-> rel, threshold |-> q],
         reached |-> Len(rel) >= q,
         record |-> build_consensus(rel, ts, tl, t)]

(* the consensus check called before the task is moved to the history *)
FinishStateCheckFirst(active, completed, ts, t, result) ==
    LET ts1 == CompleteTask(ts, t, result)
        c == CheckConsensus(completed, ts1, t)
    IN  [tasks |-> ts1, active |-> active \ {t}, completed |-> Append(completed, t),
         consensus |-> c]

(* lines 409-422: what _execute_task does when the agent has returned *)
FinishState(active, completed, ts, t, result) ==
    LET ts1 == CompleteTask(ts, t, result)
        active1 == active \ {t}
        completed1 == Append(completed, t)
        c == CheckConsensus(completed1, ts1, t)
    IN  [tasks |-> ts1, active |-> active1, completed |-> completed1, consensus |-> c]

ExecFinish(t, outcome) ==
    /\ execPc[t] = "awaiting"
    /\ LET f == FinishState(active_tasks, completed_tasks, tasks, t,
                            process_temporal_analysis(tasks[t].assigned_node_id, outcome))
       IN  /\ tasks' = f.tasks
           /\ active_tasks' = f.active
           /\ completed_tasks' = f.completed
           /\ lastCheck' = f.consensus.check
           /\ consensus' = IF f.consensus.reached
                           THEN Append(consensus, f.consensus.record)
                           ELSE consensus
           /\ execPc' = [execPc EXCEPT ![t] = IF f.consensus.reached THEN "storing" ELSE "done"]
    /\ UNCHANGED timelineVars
    /\ UNCHANGED <<agentStatus, task_queue, running, dispatchScheduled, lastSubmit>>

(* _store_consensus_result: the record goes to the database; a failure of *)
(* store_conversation or store_metric is logged and swallowed, so either  *)
(* outcome ends the coroutine and leaves the coordinator's state alone    *)
StoreOutcomes == {"stored", "failed"}

StoreConsensus(t, outcome) ==
    /\ execPc[t] = "storing"
    /\ outcome \in StoreOutcomes
    /\ execPc' = [execPc EXCEPT ![t] = "done"]
    /\ UNCHANGED timelineVars
    /\ UNCHANGED <<agentStatus, tasks, task_queue, active_tasks, completed_tasks, running,
                   dispatchScheduled, consensus, lastCheck, lastSubmit>>

----------------------------------------------------------------------------
(* start, stop, and the status attribute of an agent *)

Start ==
    /\ ~running
    /\ running' = TRUE
    /\ UNCHANGED timelineVars
    /\ UNCHANGED <<agentStatus, tasks, task_queue, active_tasks, completed_tasks,
                   dispatchScheduled, execPc, consensus, lastCheck, lastSubmit>>

Stop ==
    /\ running
    /\ running' = FALSE
    /\ UNCHANGED timelineVars
    /\ UNCHANGED <<agentStatus, tasks, task_queue, active_tasks, completed_tasks,
                   dispatchScheduled, execPc, consensus, lastCheck, lastSubmit>>

(* AGIAgent.status is a plain attribute that dispatch reads; the environment *)
(* (an operator, a health check) may set it                                  *)
SetAgentStatus(a, s) ==
    /\ agentStatus[a] /= s
    /\ agentStatus' = [agentStatus EXCEPT ![a] = s]
    /\ UNCHANGED timelineVars
    /\ UNCHANGED <<tasks, task_queue, active_tasks, completed_tasks, running,
                   dispatchScheduled, execPc, consensus, lastCheck, lastSubmit>>

----------------------------------------------------------------------------
(* The coordinator after initialize(): swarm_size is the constructor's     *)
(* argument, and _initialize_agents creates agent_configs[:swarm_size].    *)

DefaultTimelineName == "Unnamed Timeline"

NoFile == [written |-> FALSE, name |-> "", points |-> <<>>, point_count |-> 0]

NotLoaded == [present |-> FALSE, name |-> "", points |-> <<>>]

(* TemporalTimeline.__init__ *)
NewTimeline(nm) ==
    /\ name = nm
    /\ points = <<>>
    /\ anomalies = <<>>
    /\ analyzed = FALSE
    /\ exchange = NoFile
    /\ loaded = NotLoaded

EmptyTimeline == NewTimeline(DefaultTimelineName)

NoCheck == [task |-> 0, related |-> <<>>, threshold |-> 0]

InitHive(n) ==
    /\ agentStatus = [a \in 1..Min(n, AgentConfigCount) |-> "active"]
    /\ tasks = <<>>
    /\ task_queue = <<>>
    /\ active_tasks = {}
    /\ completed_tasks = <<>>
    /\ running = FALSE
    /\ dispatchScheduled = 0
    /\ execPc = <<>>
    /\ consensus = <<>>
    /\ lastCheck = NoCheck
    /\ lastSubmit = "none"

InitCoordinator(n) == InitHive(n) /\ EmptyTimeline

Init == \E n \in 0..MaxSwarmSize : InitCoordinator(n)

ExecuteStart == \E t \in TaskIds : ExecStart(t)
ExecuteFinish == \E t \in TaskIds, o \in AnalysisOutcomes : ExecFinish(t, o)
ChangeAgentStatus == \E a \in AgentIds, s \in NodeStatuses : SetAgentStatus(a, s)

StoreConsensusResult == \E t \in TaskIds, o \in StoreOutcomes : StoreConsensus(t, o)

(* a task whose input references a timeline id that other tasks may share: *)
(* the input domain of _check_consensus_completion                         *)
SubmitShared == \E tl \in TimelineIds : Submit(tl, DefaultPriority)

(* submit with the default priority *)
SubmitDefault == Submit(FreshTimelineId, DefaultPriority)

(* The coordinator as the repository runs it: every agent stays "active"   *)
(* and every timeline id is fresh, so no consensus is ever stored.         *)
Next ==
    \/ SubmitTask
    \/ SubmitRaises
    \/ RunScheduledDispatch
    \/ PeriodicDispatch
    \/ ExecuteStart
    \/ ExecuteFinish
    \/ Start
    \/ Stop

Spec == Init /\ [][Next]_vars

(* The coordinator with agents whose status changes *)
NextEnv ==
    \/ SubmitDefault
    \/ SubmitRaises
    \/ RunScheduledDispatch
    \/ PeriodicDispatch
    \/ ExecuteStart
    \/ ExecuteFinish
    \/ Start
    \/ Stop
    \/ ChangeAgentStatus

InitEnv == \E n \in 0..MaxSwarmSizeEnv : InitCoordinator(n)

SpecEnv == InitEnv /\ [][NextEnv]_vars

(* The event loop runs every coroutine that is ready: a dispatch cycle     *)
(* scheduled by submit runs, _task_processor comes round while running is  *)
(* set, a launched _execute_task starts, and an analysis that terminates   *)
(* returns.                                                                *)
Fairness ==
    /\ WF_vars(RunScheduledDispatch)
    /\ WF_vars(PeriodicDispatch)
    /\ WF_vars(ExecuteStart)
    /\ WF_vars(ExecuteFinish)

SpecEnvFair == InitEnv /\ [][NextEnv]_vars /\ Fairness

(* The coordinator on tasks that share timelines *)
NextShared ==
    \/ SubmitShared
    \/ RunScheduledDispatch
    \/ PeriodicDispatch
    \/ ExecuteStart
    \/ ExecuteFinish
    \/ StoreConsensusResult
    \/ Start
    \/ Stop

SpecShared == Init /\ [][NextShared]_vars

(* Five tasks submitted with priorities 1, 9, 5, 3, 7 to a pool of three   *)
(* idle agents, before any dispatch cycle has run                          *)
ScenarioPriorities == <<1, 9, 5, 3, 7>>

InitScenario ==
    /\ agentStatus = [a \in 1..AgentConfigCount |-> "active"]
    /\ tasks = [i \in DOMAIN ScenarioPriorities |-> HiveTask(ScenarioPriorities[i], i)]
    /\ task_queue = [i \in DOMAIN ScenarioPriorities |-> i]
    /\ active_tasks = {}
    /\ completed_tasks = <<>>
    /\ running = FALSE
    /\ dispatchScheduled = Len(ScenarioPriorities)
    /\ execPc = [i \in DOMAIN ScenarioPriorities |-> "none"]
    /\ consensus = <<>>
    /\ lastCheck = NoCheck
    /\ lastSubmit = "returned"
    /\ EmptyTimeline

NextScenario ==
    \/ RunScheduledDispatch
    \/ PeriodicDispatch
    \/ ExecuteStart
    \/ ExecuteFinish
    \/ Start
    \/ Stop

SpecScenario == InitScenario /\ [][NextScenario]_vars

(* Five tasks submitted with priorities 3, 7, 3, 7, 3 to a pool of one or  *)
(* two idle agents, before any dispatch cycle has run                      *)
TiePriorities == <<3, 7, 3, 7, 3>>

InitTies ==
    /\ \E n \in 1..MaxTieAgents : agentStatus = [a \in 1..Min(n, AgentConfigCount) |-> "active"]
    /\ tasks = [i \in DOMAIN TiePriorities |-> HiveTask(TiePriorities[i], i)]
    /\ task_queue = [i \in DOMAIN TiePriorities |-> i]
    /\ active_tasks = {}
    /\ completed_tasks = <<>>
    /\ running = FALSE
    /\ dispatchScheduled = Len(TiePriorities)
    /\ execPc = [i \in DOMAIN TiePriorities |-> "none"]
    /\ consensus = <<>>
    /\ lastCheck = NoCheck
    /\ lastSubmit = "returned"
    /\ EmptyTimeline

SpecTies == InitTies /\ [][NextScenario]_vars

(* Four tasks submitted with the default priority to a pool of three idle  *)
(* agents, three of them for one timeline, before any dispatch cycle       *)
QuorumTimelines == <<1, 1, 2, 1>>

InitQuorum ==
    /\ agentStatus = [a \in 1..AgentConfigCount |-> "active"]
    /\ tasks = [i \in DOMAIN QuorumTimelines |-> HiveTask(DefaultPriority, QuorumTimelines[i])]
    /\ task_queue = [i \in DOMAIN QuorumTimelines |-> i]
    /\ active_tasks = {}
    /\ completed_tasks = <<>>
    /\ running = FALSE
    /\ dispatchScheduled = Len(QuorumTimelines)
    /\ execPc = [i \in DOMAIN QuorumTimelines |-> "none"]
    /\ consensus = <<>>
    /\ lastCheck = NoCheck
    /\ lastSubmit = "returned"
    /\ EmptyTimeline

NextQuorum ==
    \/ RunScheduledDispatch
    \/ PeriodicDispatch
    \/ ExecuteStart
    \/ ExecuteFinish
    \/ StoreConsensusResult
    \/ Start
    \/ Stop

SpecQuorum == InitQuorum /\ [][NextQuorum]_vars

----------------------------------------------------------------------------
(* Properties of the coordinator *)

PoolSize == Cardinality(AgentIds)

Holders(a) == {t \in active_tasks : tasks[t].assigned_node_id = a}

(* C1: in every reachable state the number of tasks in the active set is   *)
(* at most the number of registered agents.                                *)
C1_ActiveAtMostPool == Cardinality(active_tasks) <= PoolSize

(* the pool is full while a task is still waiting *)
C1_Witness ==
    /\ PoolSize > 0
    /\ Cardinality(active_tasks) = PoolSize
    /\ task_queue /= <<>>

(* C2: a step that puts a task into the active set gives it an agent whose *)
(* status is "active" and that was the assigned agent of no task active    *)
(* before the step or put there earlier in the same cycle; no agent is the *)
(* assigned agent of two tasks of the active set.                          *)
C2_EligibleAgentOnly ==
    [][/\ \A t \in active_tasks' \ active_tasks :
            LET a == tasks'[t].assigned_node_id
            IN  /\ a \in AgentIds
                /\ agentStatus[a] = "active"
                /\ Holders(a) = {}
                /\ \A u \in active_tasks' \ {t} : tasks'[u].assigned_node_id /= a
       /\ \A a \in AgentIds : Cardinality(Holders(a)') <= 1]_vars

(* dispatch passed over an agent that is not active *)
C2_Witness ==
    /\ PoolSize = 2
    /\ agentStatus[1] = "offline"
    /\ Holders(1) = {}
    /\ \E t \in Holders(2) : execPc[t] = "scheduled"
    /\ task_queue /= <<>>

(* C3: with pending priorities [1, 9, 5, 3, 7], three idle agents and no   *)
(* active task, one dispatch cycle dispatches the tasks of priority 9, 7,  *)
(* 5 in that order (the first takes the first agent, and so on) and leaves *)
(* the tasks of priority 3 and 1 pending; a pending task stays pending     *)
(* while the pool is full and no task leaves the active set; and whatever  *)
(* a cycle dispatches has at least the priority of whatever it leaves.     *)
ScenarioStart ==
    /\ task_queue = <<1, 2, 3, 4, 5>>
    /\ active_tasks = {}
    /\ \A a \in AgentIds : agentStatus[a] = "active"

C3_PriorityOrder ==
    [][/\ (ScenarioStart /\ task_queue' /= task_queue) =>
            /\ active_tasks' = {2, 5, 3}
            /\ tasks'[2].assigned_node_id = 1
            /\ tasks'[5].assigned_node_id = 2
            /\ tasks'[3].assigned_node_id = 3
            /\ task_queue' = <<4, 1>>
            /\ \A t \in {4, 1} : tasks'[t].status = "pending"
       /\ (Cardinality(active_tasks) = PoolSize /\ active_tasks \subseteq active_tasks') =>
            /\ Range(task_queue) \subseteq Range(task_queue')
            /\ \A t \in Range(task_queue) : tasks'[t].status = "pending"
       /\ \A t \in active_tasks' \ active_tasks : \A u \in Range(task_queue') :
            tasks[t].priority >= tasks[u].priority]_vars

(* the cycle has run: 9, 7, 5 are active on agents 1, 2, 3 and 3, 1 wait *)
C3_Witness ==
    /\ active_tasks = {2, 5, 3}
    /\ tasks[2].assigned_node_id = 1
    /\ tasks[5].assigned_node_id = 2
    /\ tasks[3].assigned_node_id = 3
    /\ task_queue = <<4, 1>>

(* C4: a status changes only along pending -> assigned -> running ->       *)
(* completed | failed; completed and failed are left by no step; a failed  *)
(* task is never put back into the queue; no task becomes cancelled.       *)
LifecycleSteps ==
    {<<"pending", "assigned">>, <<"assigned", "running">>,
     <<"running", "completed">>, <<"running", "failed">>}

C4_ForwardLifecycle ==
    [][\A t \in TaskIds :
        /\ tasks'[t].status /= tasks[t].status =>
                <<tasks[t].status, tasks'[t].status>> \in LifecycleSteps
        /\ tasks'[t].status /= "cancelled"
        /\ (tasks[t].status = "failed" \/ tasks'[t].status = "failed") =>
                t \notin Range(task_queue')]_vars

(* a task has gone through the whole lifecycle *)
C4_Witness ==
    \E t \in TaskIds : tasks[t].status = "completed" /\ execPc[t] = "done"

(* C5: when the analysis raises for an assigned task, the task ends failed *)
(* with an error payload, leaves the active set, is not appended to the    *)
(* history and is not counted by the consensus check.                      *)
C5_AnalysisErrorFails ==
    [][\A t \in TaskIds :
        ExecFinish(t, "raises") =>
            /\ tasks'[t].status = "failed"
            /\ tasks'[t].error_data /= NoData
            /\ t \notin active_tasks'
            /\ completed_tasks' = completed_tasks
            /\ t \notin Range(lastCheck'.related)]_vars

(* C6: when the agent returns successfully the task is completed, carries  *)
(* the agent's result, a completion time and progress 100, is out of the   *)
(* active set and last in the history, and the consensus check that then   *)
(* runs for it already sees it in the history.                             *)
C6_SuccessCompletes ==
    [][\A t \in TaskIds :
        ExecFinish(t, "ok") =>
            /\ tasks'[t].status = "completed"
            /\ tasks'[t].output_data = AnalysisResult(tasks[t].assigned_node_id)
            /\ tasks'[t].completed_at /= "None"
            /\ tasks'[t].progress_percentage = 100
            /\ t \notin active_tasks'
            /\ completed_tasks' = Append(completed_tasks, t)
            /\ lastCheck'.task = t
            /\ t \in Range(lastCheck'.related)]_vars

C6_Witness ==
    \E t \in TaskIds :
        /\ tasks[t].status = "completed"
        /\ tasks[t].output_data.kind = "analysis"
        /\ completed_tasks /= <<>>
        /\ completed_tasks[Len(completed_tasks)] = t
        /\ lastCheck.task = t

(* C7: the threshold the consensus check uses is the larger of 2 and the   *)
(* integer f with f <= workerCount * 0.7 < f + 1; it is 2 for three        *)
(* workers and never below 2.  Stated of the threshold every check of a    *)
(* run has used, and of line 447 for every worker count up to              *)
(* MaxWorkerCount.                                                         *)
QuorumAsClaimed(n, q) ==
    /\ q >= 2
    /\ n = 3 => q = 2
    /\ \E f \in 0..n :
            /\ 10 * f <= 7 * n
            /\ 7 * n < 10 * (f + 1)
            /\ q = IF f > 2 THEN f ELSE 2

C7_QuorumThreshold ==
    /\ lastCheck.task /= 0 => QuorumAsClaimed(PoolSize, lastCheck.threshold)
    /\ \A n \in 0..MaxWorkerCount : QuorumAsClaimed(n, Quorum(n))

(* a check has run in a pool of one worker *)
C7_Witness ==
    /\ lastCheck.task /= 0
    /\ PoolSize = 1
    /\ lastCheck.threshold = 2

(* C8: no consensus record exists for a timeline while the history holds   *)
(* fewer than quorum (2) completed tasks for it, and the completion that   *)
(* brings the count to the quorum appends a record for that timeline.      *)
CompletedFor(tl) == Len(SelectSeq(completed_tasks,
                        LAMBDA u : tasks[u].timeline_id = tl /\ tasks[u].status = "completed"))

RecordsFor(tl) == {i \in DOMAIN consensus : consensus[i].timeline_id = tl}

C8_ConsensusAtQuorum ==
    [][\A tl \in {tasks[t].timeline_id : t \in TaskIds} :
        /\ CompletedFor(tl)' < MinQuorum => RecordsFor(tl)' = {}
        /\ (CompletedFor(tl) < MinQuorum /\ CompletedFor(tl)' >= MinQuorum) =>
                /\ Len(consensus') = Len(consensus) + 1
                /\ consensus'[Len(consensus')].timeline_id = tl
                /\ consensus'[Len(consensus')].participating_agents = MinQuorum]_vars

(* the second completion of a timeline in a pool of three has a record *)
C8_Witness ==
    \E tl \in TimelineIds :
        /\ PoolSize = 3
        /\ CompletedFor(tl) = 2
        /\ RecordsFor(tl) /= {}

(* C14: a failure of a persistence call is swallowed.  When store_timeline *)
(* or create_hive_task fails during submit, submit still returns to its    *)
(* caller, the task is queued and a dispatch cycle is scheduled; when      *)
(* storing a consensus fails, no task changes; no task becomes failed and  *)
(* the processor keeps running.                                            *)
C14_PersistenceSwallowed ==
    [][/\ lastSubmit' /= "raised"
       /\ SubmitRaises =>
            /\ Len(task_queue') = Len(task_queue) + 1
            /\ dispatchScheduled' = dispatchScheduled + 1
       /\ \A t \in TaskIds :
            /\ tasks'[t].status /= "failed"
            /\ StoreConsensus(t, "failed") => (tasks' = tasks /\ running' = running)]_vars

(* get_task_status (temporal_server.py): the task is looked up in          *)
(* active_tasks, then in completed_tasks; the HTTPException(404) raised    *)
(* when neither holds it is caught by the handler's own except Exception   *)
(* and answered as 500.                                                    *)
TaskStatusResponse(t) ==
    [code |-> 200,
     status |-> tasks[t].status,
     progress_percentage |-> tasks[t].progress_percentage,
     result |-> tasks[t].output_data]

TaskNotFound == [code |-> 500, status |-> "Task not found", progress_percentage |-> 0,
                 result |-> NoData]

get_task_status(t) ==
    IF t \in active_tasks THEN TaskStatusResponse(t)
    ELSE IF t \in Range(completed_tasks) THEN TaskStatusResponse(t)
    ELSE TaskNotFound

(* C15: at every moment after submit returned a task's identifier, the     *)
(* status query answers with the task's current status and progress, and   *)
(* with its output once it is completed: while the task is pending, while  *)
(* it is active and after it has ended; it never answers not found.        *)
C15_StatusQuery ==
    \A t \in TaskIds :
        LET r == get_task_status(t)
        IN  /\ r /= TaskNotFound
            /\ r.status = tasks[t].status
            /\ r.progress_percentage = tasks[t].progress_percentage
            /\ tasks[t].status = "completed" => r.result = tasks[t].output_data

(* C16: a dispatch cycle runs without suspension, so with the cycle that   *)
(* submit scheduled and the periodic cycle both due, each acts on the      *)
(* state the other left: a task is launched only out of the pending        *)
(* collection and leaves it in the same step, no pending task has been     *)
(* launched before or is listed twice, the active set never exceeds the    *)
(* pool, and no two active tasks have the same agent.                      *)
C16_AtomicDispatch ==
    [][/\ \A t \in TaskIds :
            (execPc'[t] = "scheduled" /\ execPc[t] /= "scheduled") =>
                /\ execPc[t] = "none"
                /\ t \in Range(task_queue)
                /\ t \notin Range(task_queue')
                /\ t \in active_tasks' \ active_tasks
       /\ \A i, j \in DOMAIN task_queue' : i /= j => task_queue'[i] /= task_queue'[j]
       /\ \A t \in Range(task_queue') : execPc'[t] = "none" /\ t \notin active_tasks'
       /\ Cardinality(active_tasks') <= PoolSize
       /\ \A t, u \in active_tasks' :
            t /= u => tasks'[t].assigned_node_id /= tasks'[u].assigned_node_id]_vars

(* the periodic cycle has dispatched while a cycle scheduled by submit is  *)
(* still due and a task is still pending                                   *)
C16_Witness ==
    /\ running
    /\ dispatchScheduled = 2
    /\ active_tasks /= {}
    /\ task_queue /= <<>>

(* C17: a dispatch cycle that finds no eligible agent for the task it has  *)
(* popped stops, and that task and every other pending task is still in    *)
(* the pending collection afterwards.                                      *)
C17_NoEligibleAgentKeepsPending ==
    [][available_agents(active_tasks, tasks) = {} =>
            /\ Range(task_queue) \subseteq Range(task_queue')
            /\ Len(task_queue') >= Len(task_queue)]_vars

(* C18: of two pending tasks of equal priority the one submitted earlier   *)
(* is dispatched first: a cycle never dispatches a task while it leaves an *)
(* earlier task of the same priority pending, and the pending collection   *)
(* lists tasks of equal priority in submission order after every cycle.    *)
(* Task ids are given in submission order.                                 *)
C18_TiesInSubmissionOrder ==
    [][/\ \A t \in active_tasks' \ active_tasks : \A u \in Range(task_queue') :
            tasks[u].priority = tasks[t].priority => t < u
       /\ \A i, j \in DOMAIN task_queue' :
            (i < j /\ tasks'[task_queue'[i]].priority = tasks'[task_queue'[j]].priority)
                => task_queue'[i] < task_queue'[j]]_vars

(* third cycle on one agent: both tasks of priority 7 and the first of     *)
(* priority 3 are done, the second of priority 3 runs, the third waits     *)
C18_Witness ==
    /\ PoolSize = 1
    /\ completed_tasks = <<2, 4, 1>>
    /\ active_tasks = {3}
    /\ task_queue = <<5>>

(* C19: a cycle that dispatches a pending task also dispatches every       *)
(* pending task that was submitted later with a higher priority, so the    *)
(* later task of higher priority is never the one left waiting; priorities *)
(* never change while a task waits, so a task of low priority is overtaken *)
(* in cycle after cycle.                                                   *)
C19_HigherPriorityOvertakes ==
    [][/\ \A lo, hi \in Range(task_queue) :
            (lo < hi /\ tasks[hi].priority > tasks[lo].priority /\ lo \in active_tasks')
                => hi \in active_tasks'
       /\ \A t \in TaskIds : tasks'[t].priority = tasks[t].priority]_vars

(* the task of priority 1, submitted first, still waits after the first    *)
(* cycle dispatched 9, 7, 5 and a later cycle dispatched 3                 *)
C19_Witness ==
    /\ task_queue = <<1>>
    /\ 4 \in active_tasks
    /\ completed_tasks /= <<>>
    /\ \A t \in Range(completed_tasks) \cup active_tasks : t > 1

(* C20: a submit or a dispatch cycle leaves every active task in the       *)
(* active set, with the agent and the status it had, and out of the        *)
(* pending collection, whatever the priorities of the submitted and the    *)
(* pending tasks.                                                          *)
C20_NoPreemption ==
    [][(SubmitTask \/ SubmitRaises \/ RunScheduledDispatch \/ PeriodicDispatch) =>
            \A t \in active_tasks :
                /\ t \in active_tasks'
                /\ tasks'[t].assigned_node_id = tasks[t].assigned_node_id
                /\ tasks'[t].status = tasks[t].status
                /\ t \notin Range(task_queue')]_vars

(* every scheduled cycle has run, the last one with a task of lower        *)
(* priority active and a task of higher priority pending                   *)
C20_Witness ==
    /\ dispatchScheduled = 0
    /\ \E t \in active_tasks : \E u \in Range(task_queue) :
            tasks[u].priority > tasks[t].priority

(* C21: when the execution of one task fails, the pending collection, the  *)
(* status, agent and payloads of every other active task, and the history  *)
(* are as before, the processor keeps running, and the agent of the failed *)
(* task holds no active task any more, so a later cycle can use it.        *)
C21_FailureIsolated ==
    [][\A t \in TaskIds :
        ExecFinish(t, "raises") =>
            /\ task_queue' = task_queue
            /\ \A u \in active_tasks \ {t} : u \in active_tasks' /\ tasks'[u] = tasks[u]
            /\ completed_tasks' = completed_tasks
            /\ running' = running
            /\ \A u \in active_tasks' :
                    tasks'[u].assigned_node_id /= tasks[t].assigned_node_id]_vars

(* C22: the tasks a consensus check collects for the task that has just    *)
(* completed are exactly the tasks of the history with status completed    *)
(* and the same timeline id; a consensus record lists exactly those that   *)
(* were in the history when it was built; a task of another timeline or    *)
(* with another status is in neither.                                      *)
HistoryIndex(t) == CHOOSE i \in DOMAIN completed_tasks : completed_tasks[i] = t

C22_ExactRelatedTasks ==
    /\ lastCheck.task /= 0 =>
            Range(lastCheck.related) =
                {u \in Range(completed_tasks) :
                    /\ tasks[u].status = "completed"
                    /\ tasks[u].timeline_id = tasks[lastCheck.task].timeline_id}
    /\ \A i \in DOMAIN consensus :
            LET c == consensus[i]
            IN  /\ c.by \in Range(completed_tasks)
                /\ Range(c.tasks) =
                        {u \in Range(completed_tasks) :
                            /\ HistoryIndex(u) <= HistoryIndex(c.by)
                            /\ tasks[u].status = "completed"
                            /\ tasks[u].timeline_id = c.timeline_id}
                /\ c.participating_agents = Cardinality(Range(c.tasks))

(* a check has run for a task while the history also holds a completion of *)
(* another timeline, which it did not collect                              *)
C22_Witness ==
    /\ lastCheck.task /= 0
    /\ Len(lastCheck.related) = 1
    /\ \E u \in Range(completed_tasks) :
            tasks[u].timeline_id /= tasks[lastCheck.task].timeline_id

(* C23: with c completed tasks of a timeline in the history and quorum q,  *)
(* the number of consensus records of the timeline is c - q + 1 when       *)
(* c >= q and 0 otherwise: every completion from the q-th on has emitted   *)
(* one, and each lists one participant more than the one before.           *)
QuorumOfPool ==
    LET f == (7 * PoolSize) \div 10
    IN  IF f > 2 THEN f ELSE 2

RecordSeqFor(tl) == SelectSeq(consensus, LAMBDA c : c.timeline_id = tl)

C23_ConsensusReEmitted ==
    \A tl \in {tasks[t].timeline_id : t \in TaskIds} :
        LET c == CompletedFor(tl)
            recs == RecordSeqFor(tl)
        IN  /\ Len(recs) = IF c >= QuorumOfPool THEN c - QuorumOfPool + 1 ELSE 0
            /\ \A i \in DOMAIN recs : recs[i].participating_agents = QuorumOfPool + i - 1

(* the third completion of a timeline has emitted its second record *)
C23_Witness ==
    \E tl \in {tasks[t].timeline_id : t \in TaskIds} :
        /\ CompletedFor(tl) = 3
        /\ Len(RecordSeqFor(tl)) = 2
        /\ RecordSeqFor(tl)[2].participating_agents = 3

(* C24: a consensus record lists the analysis texts of its tasks in the    *)
(* order the tasks completed, the i-th under the ordinal i counted from 1; *)
(* its participant count is the number of its tasks and of the listed      *)
(* analyses; its confidence is the mean over its tasks of the reported     *)
(* confidence (0.85), with 0.5 for a task whose output has none.  The text *)
(* of an analysis is identified by the agent that wrote it, the empty text *)
(* by NoAgent; the mean is the pair confidence_sum, confidence_count.      *)
ReportedBy(t) ==
    IF tasks[t].output_data.kind = "analysis" THEN tasks[t].output_data.agent_id ELSE NoAgent

C24_ConsensusContent ==
    \A k \in DOMAIN consensus :
        LET c == consensus[k]
            n == Len(c.tasks)
            reporting == {i \in 1..n : tasks[c.tasks[i]].output_data.kind = "analysis"}
        IN  /\ \A i, j \in 1..n : i < j => HistoryIndex(c.tasks[i]) < HistoryIndex(c.tasks[j])
            /\ Len(c.individual_analyses) = n
            /\ Len(c.consensus_analysis) = n
            /\ \A i \in 1..n :
                    /\ c.individual_analyses[i] = ReportedBy(c.tasks[i])
                    /\ c.consensus_analysis[i] = <<"Agent Analysis", i, ReportedBy(c.tasks[i])>>
            /\ c.participating_agents = n
            /\ c.confidence_count = n
            /\ c.confidence_sum = 85 * Cardinality(reporting) + 50 * (n - Cardinality(reporting))

(* a record over three tasks, one of them without a confidence *)
C24_Witness ==
    \E k \in DOMAIN consensus :
        /\ Len(consensus[k].tasks) = 3
        /\ consensus[k].confidence_sum = 220
        /\ consensus[k].individual_analyses[2] = NoAgent

(* C27: every task submit accepted that has not failed is in exactly one   *)
(* of the pending collection, the active set and the history, and is       *)
(* listed there once, whatever the statuses of the agents.                 *)
Occurrences(s, t) == Cardinality({i \in DOMAIN s : s[i] = t})

C27_NoTaskLost ==
    \A t \in TaskIds :
        tasks[t].status /= "failed" =>
            Occurrences(task_queue, t) + (IF t \in active_tasks THEN 1 ELSE 0)
                + Occurrences(completed_tasks, t) = 1

(* C28: when some agent is active at every moment and the coordinator,    *)
(* once started, stays started, every submitted task is eventually         *)
(* dispatched and ends completed or failed, so that from some moment on    *)
(* the pending collection and the active set are empty and every task has  *)
(* ended.                                                                  *)
SomeAgentActive == \E a \in AgentIds : agentStatus[a] = "active"

AllTasksEnded ==
    /\ task_queue = <<>>
    /\ active_tasks = {}
    /\ \A t \in TaskIds : tasks[t].status \in {"completed", "failed"}

C28_EveryTaskEnds == ([]SomeAgentActive /\ <>[]running) => (<>[]AllTasksEnded)

(* C29: every submit that returns creates exactly one task, and the        *)
(* timeline id of that task differs from the timeline id of every earlier  *)
(* task; hence no timeline id has more than one completed task in the      *)
(* history and, the quorum being at least 2, no consensus record is ever   *)
(* emitted for tasks created through submit.                               *)
TimelineIdsInUse == {tasks[t].timeline_id : t \in TaskIds}

IsPrefix(s, t) == Len(s) <= Len(t) /\ SubSeq(t, 1, Len(s)) = s

HistoryAppendOnly == [][IsPrefix(completed_tasks, completed_tasks')]_vars

HistoryEntryFields ==
    \A i \in DOMAIN completed_tasks :
        LET t == completed_tasks[i]
        IN  /\ tasks[t].status = "completed"
            /\ tasks[t].output_data /= NoData
            /\ tasks[t].completed_at /= "None"
            /\ tasks[t].progress_percentage = 100
            /\ t \notin active_tasks

HistoryOnlySuccesses ==
    \A i \in DOMAIN completed_tasks :
        tasks[completed_tasks[i]].output_data.kind = "analysis"

C30_HistoryOnlySuccesses ==
    /\ HistoryAppendOnly
    /\ [](HistoryEntryFields /\ HistoryOnlySuccesses)

----------------------------------------------------------------------------
(* TemporalPoint, TemporalTimeline and analyze_anomalies (temporal_viz.py) *)
(*                                                                         *)
(* A datetime is a number of seconds; NoTime is the None of decision_time. *)

MaxPoints == 2
MaxOrderPoints == 3
MaxExchangePoints == 2
LagThreshold == 60
HighLagThreshold == 300

TimeValues == {0, 1, 61, 301}
OrderTimes == {0, 1, 2}
NoTime == -1

(* event_data: a dict is the sequence of its items; NoPayload is the None  *)
(* of the constructor's argument                                           *)
EmptyData == <<>>
SomeData == << <<"type", "db_write">> >>
NoPayload == << <<"None", "None">> >>

TemporalPoint(id, vt, tt, dt) ==
    [event_id |-> id, valid_time |-> vt, transaction_time |-> tt, decision_time |-> dt,
     event_data |-> EmptyData]

(* event ids given by the caller, the None of the argument, and the        *)
(* identifier f"evt_{valid_time.timestamp()}" the constructor then makes   *)
GivenId(k) == <<"id", k>>
NoId == <<"None", 0>>
GeneratedId(vt) == <<"evt", vt>>

(* TemporalPoint.__init__ *)
NewTemporalPoint(vt, tt, dt, data, id) ==
    [event_id |-> IF id /= NoId THEN id ELSE GeneratedId(vt),
     valid_time |-> vt,
     transaction_time |-> tt,
     decision_time |-> dt,
     event_data |-> IF data /= NoPayload /\ data /= EmptyData THEN data ELSE EmptyData]

(* datetime.isoformat(): the text of the timestamp *)
isoformat(t) == <<"iso", t>>

(* datetime.fromisoformat(): the timestamp a text of isoformat() denotes *)
fromisoformat(text) == text[2]

IsoNull == <<"null">>

(* TemporalPoint.to_dict *)
to_dict(p) ==
    [event_id |-> p.event_id,
     valid_time |-> isoformat(p.valid_time),
     transaction_time |-> isoformat(p.transaction_time),
     decision_time |-> IF p.decision_time /= NoTime
                       THEN isoformat(p.decision_time) ELSE IsoNull,
     data |-> p.event_data]

(* an insertion that puts a point before the points of equal valid_time *)
RECURSIVE InsertBeforeEqualValidTime(_, _)
InsertBeforeEqualValidTime(sorted, p) ==
    IF sorted = <<>> THEN <<p>>
    ELSE IF Head(sorted).valid_time < p.valid_time
         THEN <<Head(sorted)>> \o InsertBeforeEqualValidTime(Tail(sorted), p)
         ELSE <<p>> \o sorted

(* sorted(self.points, key=lambda p: p.valid_time): stable *)
RECURSIVE InsertByValidTime(_, _)
InsertByValidTime(sorted, p) ==
    IF sorted = <<>> THEN <<p>>
    ELSE IF Head(sorted).valid_time <= p.valid_time
         THEN <<Head(sorted)>> \o InsertByValidTime(Tail(sorted), p)
         ELSE <<p>> \o sorted

(* the points visited in the order they were added *)
SortKeepsInsertionOrder(ps) == ps

RECURSIVE SortByValidTime(_)
SortByValidTime(ps) ==
    IF ps = <<>> THEN <<>>
    ELSE InsertByValidTime(SortByValidTime(SubSeq(ps, 1, Len(ps) - 1)), ps[Len(ps)])

Anomaly(type, severity, refs) ==
    [type |-> type, severity |-> severity, points |-> refs]

IsTimeTravelInclusive(p) == p.transaction_time <= p.valid_time

(* line 133 *)
IsTimeTravel(p) == p.transaction_time < p.valid_time

IsPrematureUnguarded(p) == p.decision_time < p.transaction_time

(* line 142 *)
IsPremature(p) == p.decision_time /= NoTime /\ p.decision_time < p.transaction_time

(* lines 151-156 *)
LagSeconds(p) == p.transaction_time - p.valid_time

LagSeverity(diff) == IF diff < HighLagThreshold THEN "medium" ELSE "high"

(* the comparison of valid_time taken as >= *)
IsOutOfOrderTies(prev, p) ==
    p.valid_time >= prev.valid_time /\ p.transaction_time < prev.transaction_time

(* line 163 *)
IsOutOfOrder(prev, p) ==
    p.valid_time > prev.valid_time /\ p.transaction_time < prev.transaction_time

(* the records one iteration of the loop appends for sorted_points[i] *)
PointAnomalies(sp, i) ==
    LET p == sp[i]
    IN  (IF IsTimeTravel(p)
         THEN <<Anomaly("time_travel", "critical", <<to_dict(p)>>)>> ELSE <<>>)
        \o
        (IF IsPremature(p)
         THEN <<Anomaly("premature_decision", "high", <<to_dict(p)>>)>> ELSE <<>>)
        \o
        (IF LagSeconds(p) > LagThreshold
         THEN <<Anomaly("ingestion_lag", LagSeverity(LagSeconds(p)), <<to_dict(p)>>)>>
         ELSE <<>>)
        \o
        (IF i > 1 /\ IsOutOfOrder(sp[i - 1], p)
         THEN <<Anomaly("out_of_order", "high", <<to_dict(sp[i - 1]), to_dict(p)>>)>>
         ELSE <<>>)

RECURSIVE AnomaliesUpTo(_, _)
AnomaliesUpTo(sp, n) ==
    IF n = 0 THEN <<>> ELSE AnomaliesUpTo(sp, n - 1) \o PointAnomalies(sp, n)

analyze_anomalies(ps) ==
    LET sorted_points == SortByValidTime(ps)
    IN  AnomaliesUpTo(sorted_points, Len(sorted_points))

(* add_point: the point gets the next identifier of the timeline *)
add_point(vt, tt, dt) ==
    /\ ~analyzed
    /\ points' = Append(points, TemporalPoint(Len(points) + 1, vt, tt, dt))
    /\ UNCHANGED <<anomalies, analyzed, name, exchange, loaded>>
    /\ UNCHANGED hiveVars

AddPoint ==
    /\ Len(points) < MaxPoints
    /\ \E vt \in TimeValues, tt \in TimeValues, dt \in TimeValues \cup {NoTime} :
            add_point(vt, tt, dt)

(* points whose times are close together and often equal, without decision *)
(* time: the input domain of the out-of-order comparison                    *)
AddOrderPoint ==
    /\ Len(points) < MaxOrderPoints
    /\ \E vt \in OrderTimes, tt \in OrderTimes : add_point(vt, tt, NoTime)

Analyze ==
    /\ ~analyzed
    /\ anomalies' = analyze_anomalies(points)
    /\ analyzed' = TRUE
    /\ UNCHANGED <<points, name, exchange, loaded>>
    /\ UNCHANGED hiveVars

InitDetect == InitCoordinator(0)

NextDetect ==
    \/ AddPoint
    \/ Analyze

SpecDetect == InitDetect /\ [][NextDetect]_vars

NextOrder ==
    \/ AddOrderPoint
    \/ Analyze

SpecOrder == InitDetect /\ [][NextOrder]_vars

----------------------------------------------------------------------------
(* save_to_json and load_from_json.  json.dump followed by json.load gives *)
(* back the dictionary that was dumped (string keys, strings, None and     *)
(* lists), so the document is kept as that dictionary.                     *)

ExchangeTimes == {0, 61}
ExchangeIds == {NoId, GivenId(1)}
ExchangePayloads == {NoPayload, SomeData}
TimelineNames == {DefaultTimelineName, "", "Loaded Timeline"}

(* lines 89-96 *)
save_document(nm, ps) ==
    [written |-> TRUE,
     name |-> nm,
     points |-> [i \in 1..Len(ps) |-> to_dict(ps[i])],
     point_count |-> Len(ps)]

(* the loader without the decision_time of lines 113-114 *)
load_point_NoDecision(point_data) ==
    NewTemporalPoint(fromisoformat(point_data.valid_time),
                     fromisoformat(point_data.transaction_time),
                     NoTime,
                     point_data.data,
                     point_data.event_id)

(* lines 110-118 *)
load_point(point_data) ==
    NewTemporalPoint(fromisoformat(point_data.valid_time),
                     fromisoformat(point_data.transaction_time),
                     IF point_data.decision_time /= IsoNull
                     THEN fromisoformat(point_data.decision_time) ELSE NoTime,
                     point_data.data,
                     point_data.event_id)

(* lines 108-122 *)
load_document(doc) ==
    [present |-> TRUE,
     name |-> doc.name,
     points |-> [i \in 1..Len(doc.points) |-> load_point(doc.points[i])]]

AddExchangePoint ==
    /\ ~exchange.written
    /\ Len(points) < MaxExchangePoints
    /\ \E vt \in ExchangeTimes, tt \in ExchangeTimes, dt \in ExchangeTimes \cup {NoTime},
          data \in ExchangePayloads, id \in ExchangeIds :
            points' = Append(points, NewTemporalPoint(vt, tt, dt, data, id))
    /\ UNCHANGED <<anomalies, analyzed, name, exchange, loaded>>
    /\ UNCHANGED hiveVars

save_to_json ==
    /\ ~exchange.written
    /\ exchange' = save_document(name, points)
    /\ UNCHANGED <<points, anomalies, analyzed, name, loaded>>
    /\ UNCHANGED hiveVars

load_from_json ==
    /\ exchange.written
    /\ ~loaded.present
    /\ loaded' = load_document(exchange)
    /\ UNCHANGED <<points, anomalies, analyzed, name, exchange>>
    /\ UNCHANGED hiveVars

InitExchange == InitHive(0) /\ \E nm \in TimelineNames : NewTimeline(nm)

NextExchange ==
    \/ AddExchangePoint
    \/ save_to_json
    \/ load_from_json

SpecExchange == InitExchange /\ [][NextExchange]_vars

----------------------------------------------------------------------------
(* Properties of the anomaly detector *)

RecordsOf(type, id) ==
    {k \in DOMAIN anomalies :
        /\ anomalies[k].type = type
        /\ anomalies[k].points[Len(anomalies[k].points)].event_id = id}

(* C9: for every point with transaction_time < valid_time the output holds *)
(* exactly one time_travel record referencing the point, with severity     *)
(* critical; for every other point it holds none.                          *)
C9_TimeTravel ==
    analyzed =>
        \A i \in DOMAIN points :
            LET p == points[i]
                recs == RecordsOf("time_travel", p.event_id)
            IN  IF p.transaction_time < p.valid_time
                THEN /\ Cardinality(recs) = 1
                     /\ \A k \in recs : /\ anomalies[k].severity = "critical"
                                        /\ anomalies[k].points = <<to_dict(p)>>
                ELSE recs = {}

(* a timeline with a time-travelling point and one recorded on time *)
C9_Witness ==
    /\ analyzed
    /\ \E i \in DOMAIN points : points[i].transaction_time < points[i].valid_time
    /\ \E i \in DOMAIN points : points[i].transaction_time = points[i].valid_time

(* C10: the output holds a premature_decision record with severity high    *)
(* referencing a point if and only if the point has a decision_time and    *)
(* decision_time < transaction_time.                                       *)
C10_PrematureDecision ==
    analyzed =>
        \A i \in DOMAIN points :
            LET p == points[i]
                recs == RecordsOf("premature_decision", p.event_id)
            IN  /\ recs /= {} <=>
                    (p.decision_time /= NoTime /\ p.decision_time < p.transaction_time)
                /\ \A k \in recs : /\ anomalies[k].severity = "high"
                                   /\ anomalies[k].points = <<to_dict(p)>>

(* a point decided too early beside a point without decision_time *)
C10_Witness ==
    /\ analyzed
    /\ \E i \in DOMAIN points :
            /\ points[i].decision_time /= NoTime
            /\ points[i].decision_time < points[i].transaction_time
    /\ \E i \in DOMAIN points : points[i].decision_time = NoTime

(* C11: with gap = transaction_time - valid_time, the output holds no      *)
(* ingestion_lag record for a point with gap <= 60, exactly one of         *)
(* severity medium for 60 < gap <= 300, and exactly one of severity high   *)
(* for gap > 300.                                                          *)
C11_IngestionLag ==
    analyzed =>
        \A i \in DOMAIN points :
            LET p == points[i]
                gap == p.transaction_time - p.valid_time
                recs == RecordsOf("ingestion_lag", p.event_id)
            IN  /\ gap <= 60 => recs = {}
                /\ (60 < gap /\ gap <= 300) =>
                        /\ Cardinality(recs) = 1
                        /\ \A k \in recs : anomalies[k].severity = "medium"
                /\ gap > 300 =>
                        /\ Cardinality(recs) = 1
                        /\ \A k \in recs : anomalies[k].severity = "high"

(* C12: with the points in ascending valid_time order (points of equal     *)
(* valid_time in the order they were added), the output holds exactly one  *)
(* out_of_order record, of severity high, referencing p_prev and p_cur for *)
(* every adjacent pair with p_cur.valid_time > p_prev.valid_time and       *)
(* p_cur.transaction_time < p_prev.transaction_time, none for any other    *)
(* adjacent pair, and none for a pair that is not adjacent.                *)
PositionByValidTime(k) ==
    1 + Cardinality({m \in DOMAIN points :
                        \/ points[m].valid_time < points[k].valid_time
                        \/ points[m].valid_time = points[k].valid_time /\ m < k})

OutOfOrderRecords(i, j) ==
    {k \in DOMAIN anomalies :
        /\ anomalies[k].type = "out_of_order"
        /\ anomalies[k].points = <<to_dict(points[i]), to_dict(points[j])>>}

C12_OutOfOrder ==
    analyzed =>
        /\ \A i, j \in DOMAIN points :
                IF /\ PositionByValidTime(j) = PositionByValidTime(i) + 1
                   /\ points[j].valid_time > points[i].valid_time
                   /\ points[j].transaction_time < points[i].transaction_time
                THEN Cardinality(OutOfOrderRecords(i, j)) = 1
                ELSE OutOfOrderRecords(i, j) = {}
        /\ \A k \in DOMAIN anomalies :
                anomalies[k].type = "out_of_order" =>
                    /\ anomalies[k].severity = "high"
                    /\ \E i, j \in DOMAIN points : k \in OutOfOrderRecords(i, j)

(* three points: the last two are out of order, the first and the last     *)
(* would be but are not adjacent, and the first two share a valid_time     *)
C12_Witness ==
    /\ analyzed
    /\ Len(points) = 3
    /\ \E i, j, m \in DOMAIN points :
            /\ PositionByValidTime(i) = 1
            /\ PositionByValidTime(j) = 2
            /\ PositionByValidTime(m) = 3
            /\ points[i].valid_time = points[j].valid_time
            /\ points[m].valid_time > points[j].valid_time
            /\ points[m].transaction_time < points[j].transaction_time
            /\ points[m].transaction_time < points[i].transaction_time
            /\ OutOfOrderRecords(j, m) /= {}

OwnerOf(k) == anomalies[k].points[Len(anomalies[k].points)].event_id

TypeRank(type) ==
    CASE type = "time_travel" -> 1
      [] type = "premature_decision" -> 2
      [] type = "ingestion_lag" -> 3
      [] type = "out_of_order" -> 4

Triggers(i, type) ==
    LET p == points[i]
    IN  CASE type = "time_travel" -> p.transaction_time < p.valid_time
          [] type = "premature_decision" ->
                p.decision_time /= NoTime /\ p.decision_time < p.transaction_time
          [] type = "ingestion_lag" -> p.transaction_time - p.valid_time > 60
          [] type = "out_of_order" ->
                \E j \in DOMAIN points :
                    /\ PositionByValidTime(i) = PositionByValidTime(j) + 1
                    /\ p.valid_time > points[j].valid_time
                    /\ p.transaction_time < points[j].transaction_time

AnomalyTypes == {"time_travel", "premature_decision", "ingestion_lag", "out_of_order"}

C25_RecordOrder ==
    analyzed =>
        /\ \A k, l \in DOMAIN anomalies :
                k < l =>
                    \/ PositionByValidTime(OwnerOf(k)) < PositionByValidTime(OwnerOf(l))
                    \/ /\ OwnerOf(k) = OwnerOf(l)
                       /\ TypeRank(anomalies[k].type) < TypeRank(anomalies[l].type)
        /\ \A i \in DOMAIN points : \A type \in AnomalyTypes :
                Cardinality(RecordsOf(type, i)) = IF Triggers(i, type) THEN 1 ELSE 0

(* two points of equal valid_time, the one inserted first with two         *)
(* records, the other with at least one                                    *)
C25_Witness ==
    /\ analyzed
    /\ Len(points) = 2
    /\ points[1].valid_time = points[2].valid_time
    /\ Cardinality({k \in DOMAIN anomalies : OwnerOf(k) = 1}) = 2
    /\ \E k \in DOMAIN anomalies : OwnerOf(k) = 2

(* C26 as claimed: for every permutation of the points of a timeline the   *)
(* detector reports the same set of records (type, severity, referenced    *)
(* points) as for the timeline itself, also when points share a            *)
(* valid_time.                                                             *)
Reinserted(perm) == [i \in DOMAIN points |-> points[perm[i]]]

RecordSet(records) == Range(records)

C26_InsertionOrderIrrelevant ==
    analyzed =>
        \A perm \in Permutations(DOMAIN points) :
            RecordSet(analyze_anomalies(Reinserted(perm))) = RecordSet(anomalies)

(* C26 as amended: for every permutation of the points the detector        *)
(* reports the same time_travel, premature_decision and ingestion_lag      *)
(* records, and the same out_of_order records when no two points of the    *)
(* timeline share a valid_time.                                            *)
PointRecords(records) == {r \in Range(records) : r.type /= "out_of_order"}

DistinctValidTimes ==
    \A i, j \in DOMAIN points : i /= j => points[i].valid_time /= points[j].valid_time

C26_InsertionOrderDistinct ==
    analyzed =>
        \A perm \in Permutations(DOMAIN points) :
            /\ PointRecords(analyze_anomalies(Reinserted(perm))) = PointRecords(anomalies)
            /\ DistinctValidTimes =>
                    RecordSet(analyze_anomalies(Reinserted(perm))) = RecordSet(anomalies)

(* three points of distinct valid_time, added latest first, with an        *)
(* out_of_order record                                                     *)
C26_Witness ==
    /\ analyzed
    /\ Len(points) = 3
    /\ points[1].valid_time > points[2].valid_time
    /\ points[2].valid_time > points[3].valid_time
    /\ \E k \in DOMAIN anomalies : anomalies[k].type = "out_of_order"

====
